---- MODULE Spec2Model ----
(***************************************************************************)
(* Model of the METAR scraper (go/scraping/cmd/metar_scraper/main.go):     *)
(* run -> downloadFile -> fileToDB -> checkLines -> writeLine -> commit.   *)
(*                                                                         *)
(* A line of text is a sequence of tokens.  A token is an atomic piece of  *)
(* text: a literal header phrase, one decimal digit, a CSV separator ",",  *)
(* a double quote, or a run of ordinary characters.  A CSV field is the    *)
(* sequence of tokens between two separators; a record is a sequence of    *)
(* fields.  A file is a sequence of lines.                                  *)
(***************************************************************************)
EXTENDS Integers, Sequences, FiniteSets, Bags, TLC

\* Largest number of data lines in a published or pre-supplied file.
MaxData == 2

Runs == {1, 2}
\* The runs that the sequential specification schedules (one process at a time).
SeqRuns == {1}
Paths == {"p1"}

----------------------------------------------------------------------------
(* Text helpers *)

Digit == {"0", "1", "2", "5"}
COMMA == ","
QUOTE == "\""

COLS == "raw_text,station_id,observation_time,latitude,longitude,temp_c,dewpoint_c,wind_dir_degrees,wind_speed_kt,wind_gust_kt,visibility_statute_mi,altim_in_hg,sea_level_pressure_mb,corrected,auto,auto_station,maintenance_indicator_on,no_signal,lightning_sensor_off,freezing_rain_sensor_off,present_weather_sensor_off,wx_string,sky_cover,cloud_base_ft_agl,sky_cover,cloud_base_ft_agl,sky_cover,cloud_base_ft_agl,sky_cover,cloud_base_ft_agl,flight_category,three_hr_pressure_tendency_mb,maxT_c,minT_c,maxT24hr_c,minT24hr_c,precip_in,pcp3hr_in,pcp6hr_in,pcp24hr_in,snow_in,vert_vis_ft,metar_type,elevation_m"

\* The six compiled patterns.  start/end: the pattern carries ^ / $;
\* digits: the literal is preceded by [0-9]*.
metarHeaders ==
  << [start |-> TRUE,  digits |-> FALSE, lit |-> "No errors",          end |-> TRUE],
     [start |-> TRUE,  digits |-> FALSE, lit |-> "No warnings",        end |-> TRUE],
     [start |-> TRUE,  digits |-> TRUE,  lit |-> " ms",                end |-> TRUE],
     [start |-> TRUE,  digits |-> FALSE, lit |-> "data source=metars", end |-> TRUE],
     [start |-> TRUE,  digits |-> TRUE,  lit |-> " results",           end |-> TRUE],
     [start |-> FALSE, digits |-> FALSE, lit |-> COLS,                 end |-> FALSE] >>

NumHeaders == Len(metarHeaders)

\* regexp.MatchString: the pattern matches somewhere in text, subject to its anchors.
MatchString(p, text) ==
  \E i \in 1..Len(text) :
    /\ text[i] = p.lit
    /\ (p.end => i = Len(text))
    /\ LET pre == SubSeq(text, 1, i - 1) IN
       IF p.digits
       THEN \E j \in 0..Len(pre) :
              /\ \A k \in (j + 1)..Len(pre) : pre[k] \in Digit
              /\ (p.start => j = 0)
       ELSE p.start => pre = <<>>

----------------------------------------------------------------------------
(* encoding/csv: Reader.Read on one line *)

RECURSIVE CsvFields(_, _, _, _, _)
\* text from index i on; cur = field being collected; quoted = inside a quoted
\* field; acc = fields finished so far.  Result: [err, parts].
CsvFields(text, i, cur, quoted, acc) ==
  IF i > Len(text)
  THEN IF quoted THEN [err |-> "quote", parts |-> <<>>]
       ELSE [err |-> "none", parts |-> Append(acc, cur)]
  ELSE LET t == text[i] IN
       IF quoted
       THEN IF t = QUOTE
            THEN IF i = Len(text) \/ text[i + 1] = COMMA
                 THEN IF i = Len(text)
                      THEN [err |-> "none", parts |-> Append(acc, cur)]
                      ELSE CsvFields(text, i + 2, <<>>, FALSE, Append(acc, cur))
                 ELSE IF text[i + 1] = QUOTE
                      THEN CsvFields(text, i + 2, Append(cur, QUOTE), TRUE, acc)
                      ELSE [err |-> "quote", parts |-> <<>>]
            ELSE CsvFields(text, i + 1, Append(cur, t), TRUE, acc)
       ELSE IF t = COMMA
            THEN CsvFields(text, i + 1, <<>>, FALSE, Append(acc, cur))
            ELSE IF t = QUOTE
                 THEN IF cur = <<>>
                      THEN CsvFields(text, i + 1, <<>>, TRUE, acc)
                      ELSE [err |-> "bare quote", parts |-> <<>>]
                 ELSE CsvFields(text, i + 1, Append(cur, t), FALSE, acc)

\* An empty line holds no record: Read returns io.EOF.
CsvRead(text) ==
  IF text = <<>> THEN [err |-> "EOF", parts |-> <<>>]
  ELSE CsvFields(text, 1, <<>>, FALSE, <<>>)

----------------------------------------------------------------------------
(* time.Parse(time.RFC3339, s): the instant a field denotes, or an error.  *)
(* "t1Z" and "t1+00:00" are two spellings of the same instant.             *)

TimeParse(field) ==
  IF field = <<"t1Z">> THEN [err |-> FALSE, t |-> 1]
  ELSE IF field = <<"t1+00:00">> THEN [err |-> FALSE, t |-> 1]
  ELSE IF field = <<"t2Z">> THEN [err |-> FALSE, t |-> 2]
  ELSE [err |-> TRUE, t |-> 0]

----------------------------------------------------------------------------
(* writeLine up to the Exec call: what the line asks the store to do *)

\* Variant: the error of time.Parse is dropped and the zero time is stored.
ParseLine_IgnoresTimeError(text) ==
  LET rec == CsvRead(text)
      none == [station |-> <<>>, time |-> 0, csv_parts |-> <<>>] IN
  IF rec.err # "none" THEN [kind |-> "parsing line", row |-> none]
  ELSE IF Len(rec.parts) < 3 THEN [kind |-> "panic", row |-> none]
  ELSE [kind |-> "insert",
        row |-> [station |-> rec.parts[2], time |-> TimeParse(rec.parts[3]).t,
                 csv_parts |-> rec.parts]]

\* Variant: the station is taken from field 0 instead of field 1.
ParseLine_StationOffByOne(text) ==
  LET rec == CsvRead(text)
      none == [station |-> <<>>, time |-> 0, csv_parts |-> <<>>] IN
  IF rec.err # "none" THEN [kind |-> "parsing line", row |-> none]
  ELSE IF Len(rec.parts) < 3 THEN [kind |-> "panic", row |-> none]
  ELSE LET tm == TimeParse(rec.parts[3]) IN
       IF tm.err THEN [kind |-> "bad time", row |-> none]
       ELSE [kind |-> "insert",
             row |-> [station |-> rec.parts[1], time |-> tm.t, csv_parts |-> rec.parts]]

\* kind: "insert" (row is the statement's values), "parsing line", "bad time",
\* or "panic" (parts[1] or parts[2] indexed past the end of parts).
ParseLine(text) ==
  LET rec == CsvRead(text)
      none == [station |-> <<>>, time |-> 0, csv_parts |-> <<>>] IN
  IF rec.err # "none" THEN [kind |-> "parsing line", row |-> none]
  ELSE IF Len(rec.parts) < 3 THEN [kind |-> "panic", row |-> none]
  ELSE LET tm == TimeParse(rec.parts[3]) IN
       IF tm.err THEN [kind |-> "bad time", row |-> none]
       ELSE [kind |-> "insert",
             row |-> [station |-> rec.parts[2], time |-> tm.t, csv_parts |-> rec.parts]]

SameKey(a, b) == a.station = b.station /\ a.time = b.time

\* Variant: a plain INSERT, without the ON CONFLICT clause.
Upsert_PlainInsert(rows, row) == rows (+) SetToBag({row})

\* Variant: ON CONFLICT (station, time) DO NOTHING: the first write wins.
Upsert_DoNothing(rows, row) ==
  IF \E x \in BagToSet(rows) : SameKey(x, row) THEN rows
  ELSE rows (+) SetToBag({row})

\* The table metars is a bag of rows: nothing in the model itself forbids two
\* equal rows.
\* INSERT ... ON CONFLICT (station, time) DO UPDATE set csv_parts=EXCLUDED.csv_parts
Upsert(rows, row) ==
  LET hit == {x \in BagToSet(rows) : SameKey(x, row)}
      rest == [x \in (BagToSet(rows) \ hit) |-> rows[x]] IN
  IF hit = {}
  THEN rows (+) SetToBag({row})
  ELSE rest (+) [x \in {row} |-> BagCardinality([y \in hit |-> rows[y]])]

RECURSIVE ApplyLog(_, _)
\* The statements of a transaction take effect in the order they were executed.
ApplyLog(rows, log) ==
  IF log = <<>> THEN rows ELSE ApplyLog(Upsert(rows, Head(log)), Tail(log))

\* Variant: the committed statements replace the table instead of joining it.
CommitRows_Replace(rows, log) == ApplyLog(EmptyBag, log)

\* tx.Commit: the transaction's statements become the store's content.
CommitRows(rows, log) == ApplyLog(rows, log)

\* Variant: the error path leaves the statements executed so far in the store.
RollbackRows_Keeps(rows, log) == ApplyLog(rows, log)

\* tx.Rollback (deferred): the transaction's statements are discarded.
RollbackRows(rows, log) == rows

----------------------------------------------------------------------------
(* Inputs: the lines and files the feed or the operator can supply *)

L_SEA_A     == <<"A", COMMA, "KSEA", COMMA, "t1Z">>
L_SEA_B     == <<"B", COMMA, "KSEA", COMMA, "t1+00:00">>
L_PDX       == <<"A", COMMA, "KPDX", COMMA, "t2Z">>
L_QUOTED    == <<QUOTE, "A", COMMA, "B", QUOTE, COMMA, "KSEA", COMMA, "t2Z">>
L_NOSTATION == <<"A", COMMA, COMMA, "t1Z">>
L_BADTIME   == <<"A", COMMA, "KSEA", COMMA, "2024-13-40">>
L_BAREQUOTE == <<"A", QUOTE, COMMA, "KSEA", COMMA, "t1Z">>
L_SHORT     == <<"A", COMMA, "KSEA">>
L_EMPTY     == <<>>

DataLines == {L_SEA_A, L_SEA_B, L_PDX, L_QUOTED, L_NOSTATION,
              L_BADTIME, L_BAREQUOTE, L_SHORT, L_EMPTY}

DataSeqs == UNION {[1..n -> DataLines] : n \in 0..MaxData}

\* A header block as the feed publishes it.
GoodHeader ==
  << <<"No errors">>, <<"No warnings">>, <<"1", "2", " ms">>,
     <<"data source=metars">>, <<"5", " results">>, <<COLS>> >>

\* Ways in which header line i can be altered.
AltLines(i) ==
  CASE i = 1 -> {<<"No errors", "X">>, <<"no errors">>}
    [] i = 2 -> {<<"X", "No warnings">>}
    [] i = 3 -> {<<" ms">>, <<"5", "ms">>, <<"X", "5", " ms">>, <<"5", " ms">>}
    [] i = 4 -> {<<"data source=tafs">>}
    [] i = 5 -> {<<"5", "result">>, <<" results">>, <<"5", " results", "X">>}
    [] i = 6 -> {<<"X", COLS>>, <<COLS, "X">>, <<"raw_text,station_id">>}

ReplaceAt(s, i, x) == [s EXCEPT ![i] = x]
RemoveAt(s, i) == SubSeq(s, 1, i - 1) \o SubSeq(s, i + 1, Len(s))

GoodFiles == {GoodHeader \o d : d \in DataSeqs}
AlteredFiles == UNION {{ReplaceAt(GoodHeader, i, a) \o <<L_SEA_A>> : a \in AltLines(i)} :
                          i \in 1..NumHeaders}
MissingFiles == {RemoveAt(GoodHeader, i) \o d :
                   i \in 1..NumHeaders, d \in {<<>>, <<L_SEA_A>>}}

\* Every content a complete file can have.
FileSet == GoodFiles \cup AlteredFiles \cup MissingFiles

NoFile == [exists |-> FALSE, lines |-> <<>>]
File(lines) == [exists |-> TRUE, lines |-> lines]

----------------------------------------------------------------------------
(* State *)

VARIABLES
  db,         \* committed content of table metars: a bag of rows
  fs,         \* the local filesystem: path -> file
  pc,         \* run -> where the run is
  flags,      \* run -> [download, filename]
  pos,        \* run -> number of lines the scanner has handed out
  pat,        \* run -> index of the header pattern checkLines is at
  txState,    \* run -> "none", "open", "committed", "rolledback"
  txLog,      \* run -> rows upserted inside the open transaction, in order
  err,        \* run -> "none" or the error the run ended with
  called,     \* run -> fileToDB has been called in this run
  dbAtStart,  \* run -> db when the run started
  dbAtCall,   \* run -> db when fileToDB was called
  fileAtCall, \* run -> the file at flags.filename when fileToDB was called
  fresh,      \* path -> the latest fileToDB call committed exactly this content
  repeat      \* run -> fresh[filename] when fileToDB was called

vars == <<db, fs, pc, flags, pos, pat, txState, txLog, err, called,
          dbAtStart, dbAtCall, fileAtCall, fresh, repeat>>

DownloadErrs == {"http get", "unexpected status code", "gzip error",
                 "error creating file", "error writing to file"}
HeaderErrs == {"scan error", "expected pattern"}
LineErrs == {"parsing line", "bad time", "exec"}
IngestErrs == {"opening file", "starting transaction", "reading file", "committing"}
                \cup HeaderErrs \cup LineErrs

Init ==
  /\ db = EmptyBag
  /\ fs \in [Paths -> {NoFile} \cup {File(l) : l \in FileSet}]
  /\ pc = [r \in Runs |-> "idle"]
  /\ flags = [r \in Runs |-> [download |-> FALSE, filename |-> "p1"]]
  /\ pos = [r \in Runs |-> 0]
  /\ pat = [r \in Runs |-> 1]
  /\ txState = [r \in Runs |-> "none"]
  /\ txLog = [r \in Runs |-> <<>>]
  /\ err = [r \in Runs |-> "none"]
  /\ called = [r \in Runs |-> FALSE]
  /\ dbAtStart = [r \in Runs |-> EmptyBag]
  /\ dbAtCall = [r \in Runs |-> EmptyBag]
  /\ fileAtCall = [r \in Runs |-> NoFile]
  /\ fresh = [p \in Paths |-> FALSE]
  /\ repeat = [r \in Runs |-> FALSE]

----------------------------------------------------------------------------
(* run: the sequencing decisions *)

\* Variant: the error of downloadFile is not checked.
AfterDownload_IgnoresError(failed) == "connect"

\* run, after downloadFile returned.
AfterDownload(failed) == IF failed THEN "done" ELSE "connect"

\* Variant: the file is removed whether or not fileToDB failed.
AfterFileToDB_AlwaysCleans(download, failed) == IF download THEN "remove" ELSE "done"

\* Variant: the file is removed after success whatever the download flag.
AfterFileToDB_IgnoresFlag(download, failed) == IF failed THEN "done" ELSE "remove"

\* run, after fileToDB returned.
AfterFileToDB(download, failed) ==
  IF failed THEN "done" ELSE IF download THEN "remove" ELSE "done"

\* Variant: O_TRUNC instead of O_EXCL: an existing file is overwritten.
OpenExcl_Truncates(file) == TRUE

\* os.OpenFile(filename, O_RDWR|O_EXCL|O_CREATE): succeeds only on a new path.
OpenExcl(file) == ~file.exists

\* main: a new process starts run with its flags.
StartRun(r) ==
  /\ pc[r] \in {"idle", "done", "crashed"}
  /\ \E dl \in BOOLEAN, fn \in Paths :
       /\ flags' = [flags EXCEPT ![r] = [download |-> dl, filename |-> fn]]
       /\ pc' = [pc EXCEPT ![r] = IF dl THEN "download" ELSE "connect"]
  /\ pos' = [pos EXCEPT ![r] = 0]
  /\ pat' = [pat EXCEPT ![r] = 1]
  /\ txState' = [txState EXCEPT ![r] = "none"]
  /\ txLog' = [txLog EXCEPT ![r] = <<>>]
  /\ err' = [err EXCEPT ![r] = "none"]
  /\ called' = [called EXCEPT ![r] = FALSE]
  /\ dbAtStart' = [dbAtStart EXCEPT ![r] = db]
  /\ dbAtCall' = [dbAtCall EXCEPT ![r] = db]
  /\ fileAtCall' = [fileAtCall EXCEPT ![r] = NoFile]
  /\ repeat' = [repeat EXCEPT ![r] = FALSE]
  /\ UNCHANGED <<db, fs, fresh>>

\* Variant: the destination file is created before the request is made, so a
\* failed request, a bad status or a bad gzip header leaves an empty file.
DownloadFile_CreatesFirst(r) ==
  LET fn == flags[r].filename IN
  /\ pc[r] = "download"
  /\ \/ /\ ~OpenExcl(fs[fn])
        /\ err' = [err EXCEPT ![r] = "error creating file"]
        /\ pc' = [pc EXCEPT ![r] = AfterDownload(TRUE)]
        /\ UNCHANGED <<fs, fresh>>
     \/ /\ OpenExcl(fs[fn])
        /\ fresh' = [fresh EXCEPT ![fn] = FALSE]
        /\ \/ \E e \in {"http get", "unexpected status code", "gzip error"} :
                /\ fs' = [fs EXCEPT ![fn] = File(<<>>)]
                /\ err' = [err EXCEPT ![r] = e]
                /\ pc' = [pc EXCEPT ![r] = AfterDownload(TRUE)]
           \/ \E body \in FileSet :
                /\ fs' = [fs EXCEPT ![fn] = File(body)]
                /\ pc' = [pc EXCEPT ![r] = AfterDownload(FALSE)]
                /\ UNCHANGED err
  /\ UNCHANGED <<db, flags, pos, pat, txState, txLog, called,
                 dbAtStart, dbAtCall, fileAtCall, repeat>>

\* downloadFile, as called by run.
DownloadFile(r) ==
  LET fn == flags[r].filename IN
  /\ pc[r] = "download"
  /\ \/ \E e \in {"http get", "unexpected status code", "gzip error"} :
          /\ err' = [err EXCEPT ![r] = e]
          /\ pc' = [pc EXCEPT ![r] = AfterDownload(TRUE)]
          /\ UNCHANGED <<fs, fresh>>
     \/ /\ \E creatable \in BOOLEAN : ~(OpenExcl(fs[fn]) /\ creatable)
        /\ err' = [err EXCEPT ![r] = "error creating file"]
        /\ pc' = [pc EXCEPT ![r] = AfterDownload(TRUE)]
        /\ UNCHANGED <<fs, fresh>>
     \/ /\ OpenExcl(fs[fn])
        /\ \E body \in FileSet :
             \/ /\ fs' = [fs EXCEPT ![fn] = File(body)]
                /\ pc' = [pc EXCEPT ![r] = AfterDownload(FALSE)]
                /\ UNCHANGED err
             \/ \E k \in 0..Len(body) :
                  /\ fs' = [fs EXCEPT ![fn] = File(SubSeq(body, 1, k))]
                  /\ err' = [err EXCEPT ![r] = "error writing to file"]
                  /\ pc' = [pc EXCEPT ![r] = AfterDownload(TRUE)]
        /\ fresh' = [fresh EXCEPT ![fn] = FALSE]
  /\ UNCHANGED <<db, flags, pos, pat, txState, txLog, called,
                 dbAtStart, dbAtCall, fileAtCall, repeat>>

\* sql.Open
SqlOpen(r) ==
  /\ pc[r] = "connect"
  /\ \E ok \in BOOLEAN :
       IF ok
       THEN /\ pc' = [pc EXCEPT ![r] = "open"]
            /\ UNCHANGED err
       ELSE /\ pc' = [pc EXCEPT ![r] = "done"]
            /\ err' = [err EXCEPT ![r] = "connecting to database"]
  /\ UNCHANGED <<db, fs, flags, pos, pat, txState, txLog, called,
                 dbAtStart, dbAtCall, fileAtCall, fresh, repeat>>

----------------------------------------------------------------------------
(* fileToDB *)

\* Variant: no deferred tx.Rollback: an error return leaves the transaction open.
FailIngest_NoRollback(r, e) ==
  /\ err' = [err EXCEPT ![r] = e]
  /\ pc' = [pc EXCEPT ![r] = IF e = "panic" THEN "crashed"
                             ELSE AfterFileToDB(flags[r].download, TRUE)]
  /\ UNCHANGED <<txState, db>>
  /\ fresh' = [fresh EXCEPT ![flags[r].filename] = FALSE]

\* fileToDB returns error e; the deferred tx.Rollback ends an open transaction.
FailIngest(r, e) ==
  /\ err' = [err EXCEPT ![r] = e]
  /\ pc' = [pc EXCEPT ![r] = IF e = "panic" THEN "crashed"
                             ELSE AfterFileToDB(flags[r].download, TRUE)]
  /\ txState' = [txState EXCEPT ![r] = IF @ = "open" THEN "rolledback" ELSE @]
  /\ db' = IF txState[r] = "open" THEN RollbackRows(db, txLog[r]) ELSE db
  /\ fresh' = [fresh EXCEPT ![flags[r].filename] = FALSE]

\* Variant: the header check is skipped and the transaction begun at once.
OpenFile_SkipsValidation(r) ==
  LET fn == flags[r].filename IN
  /\ pc[r] = "open"
  /\ called' = [called EXCEPT ![r] = TRUE]
  /\ dbAtCall' = [dbAtCall EXCEPT ![r] = db]
  /\ fileAtCall' = [fileAtCall EXCEPT ![r] = fs[fn]]
  /\ repeat' = [repeat EXCEPT ![r] = fresh[fn]]
  /\ IF fs[fn].exists
     THEN /\ pc' = [pc EXCEPT ![r] = "begin"]
          /\ UNCHANGED <<err, txState, db, fresh>>
     ELSE FailIngest(r, "opening file")
  /\ UNCHANGED <<fs, flags, pos, pat, txLog, dbAtStart>>

\* fileToDB entry: os.Open and bufio.NewScanner.
OpenFile(r) ==
  LET fn == flags[r].filename IN
  /\ pc[r] = "open"
  /\ called' = [called EXCEPT ![r] = TRUE]
  /\ dbAtCall' = [dbAtCall EXCEPT ![r] = db]
  /\ fileAtCall' = [fileAtCall EXCEPT ![r] = fs[fn]]
  /\ repeat' = [repeat EXCEPT ![r] = fresh[fn]]
  /\ IF fs[fn].exists
     THEN /\ pc' = [pc EXCEPT ![r] = "headers"]
          /\ UNCHANGED <<err, txState, db, fresh>>
     ELSE FailIngest(r, "opening file")
  /\ UNCHANGED <<fs, flags, pos, pat, txLog, dbAtStart>>

\* Variant: the loop stops one pattern early (range over patterns[:len-1]).
CheckLines_OnePatternShort(r) ==
  LET lines == fs[flags[r].filename].lines IN
  /\ pc[r] = "headers"
  /\ \/ /\ pos[r] >= Len(lines)
        /\ FailIngest(r, "scan error")
        /\ UNCHANGED <<pos, pat>>
     \/ /\ pos[r] < Len(lines)
        /\ IF ~MatchString(metarHeaders[pat[r]], lines[pos[r] + 1])
           THEN /\ FailIngest(r, "expected pattern")
                /\ pos' = [pos EXCEPT ![r] = @ + 1]
                /\ UNCHANGED pat
           ELSE /\ pos' = [pos EXCEPT ![r] = @ + 1]
                /\ pat' = [pat EXCEPT ![r] = @ + 1]
                /\ pc' = [pc EXCEPT ![r] = IF pat[r] = NumHeaders - 1 THEN "begin"
                                           ELSE "headers"]
                /\ UNCHANGED <<err, txState, db, fresh>>
  /\ UNCHANGED <<fs, flags, txLog, called, dbAtStart, dbAtCall, fileAtCall, repeat>>

\* checkLines: one iteration of the loop over the patterns.
CheckLines(r) ==
  LET lines == fs[flags[r].filename].lines IN
  /\ pc[r] = "headers"
  /\ \/ /\ pos[r] >= Len(lines)
        /\ FailIngest(r, "scan error")
        /\ UNCHANGED <<pos, pat>>
     \/ /\ pos[r] < Len(lines)
        /\ \E ioerr \in BOOLEAN :
             IF ioerr
             THEN FailIngest(r, "scan error") /\ UNCHANGED <<pos, pat>>
             ELSE IF ~MatchString(metarHeaders[pat[r]], lines[pos[r] + 1])
             THEN /\ FailIngest(r, "expected pattern")
                  /\ pos' = [pos EXCEPT ![r] = @ + 1]
                  /\ UNCHANGED pat
             ELSE /\ pos' = [pos EXCEPT ![r] = @ + 1]
                  /\ pat' = [pat EXCEPT ![r] = @ + 1]
                  /\ pc' = [pc EXCEPT ![r] = IF pat[r] = NumHeaders THEN "begin" ELSE "headers"]
                  /\ UNCHANGED <<err, txState, db, fresh>>
  /\ UNCHANGED <<fs, flags, txLog, called, dbAtStart, dbAtCall, fileAtCall, repeat>>

\* db.Begin and the deferred tx.Rollback.
TxBegin(r) ==
  /\ pc[r] = "begin"
  /\ \E ok \in BOOLEAN :
       IF ok
       THEN /\ txState' = [txState EXCEPT ![r] = "open"]
            /\ pc' = [pc EXCEPT ![r] = "scan"]
            /\ UNCHANGED <<err, db, fresh>>
       ELSE FailIngest(r, "starting transaction")
  /\ UNCHANGED <<fs, flags, pos, pat, txLog, called, dbAtStart, dbAtCall,
                 fileAtCall, repeat>>

\* The store's row lock: another run's open transaction has written the key
\* of row, so an upsert of that key waits until that transaction ends.
Locked(r, row) ==
  \E q \in Runs \ {r} :
    /\ txState[q] = "open"
    /\ \E i \in 1..Len(txLog[q]) : SameKey(txLog[q][i], row)

\* One iteration of the scan loop: scanner.Scan, scanner.Text, writeLine.
ScanWrite(r) ==
  LET lines == fs[flags[r].filename].lines IN
  /\ pc[r] = "scan"
  /\ pos[r] < Len(lines)
  /\ \E ioerr \in BOOLEAN, execOk \in BOOLEAN :
       LET res == ParseLine(lines[pos[r] + 1]) IN
       IF ioerr
       THEN FailIngest(r, "reading file") /\ UNCHANGED <<pos, txLog>>
       ELSE /\ pos' = [pos EXCEPT ![r] = @ + 1]
            /\ IF res.kind # "insert"
               THEN FailIngest(r, res.kind) /\ UNCHANGED txLog
               ELSE IF ~execOk
               THEN FailIngest(r, "exec") /\ UNCHANGED txLog
               ELSE /\ ~Locked(r, res.row)
                    /\ txLog' = [txLog EXCEPT ![r] = Append(@, res.row)]
                    /\ UNCHANGED <<pc, err, txState, db, fresh>>
  /\ UNCHANGED <<fs, flags, pat, called, dbAtStart, dbAtCall, fileAtCall, repeat>>

\* scanner.Scan returns false at the end of the input: scanner.Err, tx.Commit.
EndOfInput(r) ==
  LET fn == flags[r].filename IN
  /\ pc[r] = "scan"
  /\ pos[r] = Len(fs[fn].lines)
  /\ \E commitOk \in BOOLEAN :
       IF commitOk
       THEN /\ db' = CommitRows(db, txLog[r])
            /\ txState' = [txState EXCEPT ![r] = "committed"]
            /\ pc' = [pc EXCEPT ![r] = AfterFileToDB(flags[r].download, FALSE)]
            /\ fresh' = [fresh EXCEPT ![fn] = TRUE]
            /\ UNCHANGED err
       ELSE FailIngest(r, "committing")
  /\ UNCHANGED <<fs, flags, pos, pat, txLog, called, dbAtStart, dbAtCall,
                 fileAtCall, repeat>>

\* Variant: the error of os.Remove is not reported.
OsRemove_IgnoresError(r) ==
  LET fn == flags[r].filename IN
  /\ pc[r] = "remove"
  /\ \E ok \in BOOLEAN :
       IF ok /\ fs[fn].exists
       THEN /\ fs' = [fs EXCEPT ![fn] = NoFile]
            /\ fresh' = [fresh EXCEPT ![fn] = FALSE]
       ELSE UNCHANGED <<fs, fresh>>
  /\ pc' = [pc EXCEPT ![r] = "done"]
  /\ UNCHANGED <<db, flags, pos, pat, txState, txLog, err, called,
                 dbAtStart, dbAtCall, fileAtCall, repeat>>

\* run: os.Remove after a successful ingestion in download mode.
OsRemove(r) ==
  LET fn == flags[r].filename IN
  /\ pc[r] = "remove"
  /\ \E ok \in BOOLEAN :
       IF ok /\ fs[fn].exists
       THEN /\ fs' = [fs EXCEPT ![fn] = NoFile]
            /\ fresh' = [fresh EXCEPT ![fn] = FALSE]
            /\ UNCHANGED err
       ELSE /\ err' = [err EXCEPT ![r] = "removing file"]
            /\ UNCHANGED <<fs, fresh>>
  /\ pc' = [pc EXCEPT ![r] = "done"]
  /\ UNCHANGED <<db, flags, pos, pat, txState, txLog, called,
                 dbAtStart, dbAtCall, fileAtCall, repeat>>

Step(r) ==
  \/ StartRun(r)
  \/ DownloadFile(r)
  \/ SqlOpen(r)
  \/ OpenFile(r)
  \/ CheckLines(r)
  \/ TxBegin(r)
  \/ ScanWrite(r)
  \/ EndOfInput(r)
  \/ OsRemove(r)

\* Runs happen one after the other (the cron wrapper starts one process).
Next == \E r \in SeqRuns : Step(r)

Spec == Init /\ [][Next]_vars

\* Between two runs somebody removes the file left at a path.
ExternalRemove(p) ==
  /\ \A r \in Runs : pc[r] \in {"idle", "done", "crashed"}
  /\ fs[p].exists
  /\ fs' = [fs EXCEPT ![p] = NoFile]
  /\ fresh' = [fresh EXCEPT ![p] = FALSE]
  /\ UNCHANGED <<db, pc, flags, pos, pat, txState, txLog, err, called,
                 dbAtStart, dbAtCall, fileAtCall, repeat>>

NextEnv ==
  \/ \E r \in SeqRuns : Step(r)
  \/ \E p \in Paths : ExternalRemove(p)

\* Sequential runs, with files removed by hand between them.
SpecEnv == Init /\ [][NextEnv]_vars

----------------------------------------------------------------------------
(* Two processes at once, each on a pre-supplied file of its own *)

ConcPaths == {"p1", "p2"}
PathOf(r) == IF r = 1 THEN "p1" ELSE "p2"

ConcLines == {L_SEA_A, L_SEA_B, L_PDX}
ConcFiles == {GoodHeader \o d : d \in UNION {[1..n -> ConcLines] : n \in 1..MaxData}}

InitConc ==
  /\ db = EmptyBag
  /\ fs \in [ConcPaths -> {File(l) : l \in ConcFiles}]
  /\ pc = [r \in Runs |-> "idle"]
  /\ flags = [r \in Runs |-> [download |-> FALSE, filename |-> PathOf(r)]]
  /\ pos = [r \in Runs |-> 0]
  /\ pat = [r \in Runs |-> 1]
  /\ txState = [r \in Runs |-> "none"]
  /\ txLog = [r \in Runs |-> <<>>]
  /\ err = [r \in Runs |-> "none"]
  /\ called = [r \in Runs |-> FALSE]
  /\ dbAtStart = [r \in Runs |-> EmptyBag]
  /\ dbAtCall = [r \in Runs |-> EmptyBag]
  /\ fileAtCall = [r \in Runs |-> NoFile]
  /\ fresh = [p \in ConcPaths |-> FALSE]
  /\ repeat = [r \in Runs |-> FALSE]

\* main: process r starts run once, without the download flag, on its file.
StartConc(r) ==
  /\ pc[r] = "idle"
  /\ pc' = [pc EXCEPT ![r] = "connect"]
  /\ dbAtStart' = [dbAtStart EXCEPT ![r] = db]
  /\ UNCHANGED <<db, fs, flags, pos, pat, txState, txLog, err, called,
                 dbAtCall, fileAtCall, fresh, repeat>>

NextConc ==
  \E r \in Runs :
    \/ StartConc(r)
    \/ SqlOpen(r)
    \/ OpenFile(r)
    \/ CheckLines(r)
    \/ TxBegin(r)
    \/ ScanWrite(r)
    \/ EndOfInput(r)

\* Two runs interleaved step by step against one store.
SpecConc == InitConc /\ [][NextConc]_vars

----------------------------------------------------------------------------
(* Vocabulary of the properties *)

\* fileToDB was called in run r and control has left it.
FileToDBReturned(r) == called[r] /\ pc[r] \in {"remove", "done", "crashed"}

\* The data lines of the file run r's fileToDB call read.
DataOf(r) == SubSeq(fileAtCall[r].lines, NumHeaders + 1, Len(fileAtCall[r].lines))

Key(x) == [station |-> x.station, time |-> x.time]
Keys(rows) == {Key(x) : x \in BagToSet(rows)}

\* The row a well-formed data line describes: station = field 1, time = field 2
\* (fields counted from 0), csv_parts = all fields in order.
RowOfLine(text) ==
  LET parts == CsvRead(text).parts IN
  [station |-> parts[2], time |-> TimeParse(parts[3]).t, csv_parts |-> parts]

----------------------------------------------------------------------------
(* C1 *)

\* C1 (atomicity): when a data line fails to parse or its write fails, then
\* once fileToDB has returned the store equals the store at the time of the
\* call: no write made for the earlier lines of the file is visible.
C1_Atomicity ==
  \A r \in Runs :
    (FileToDBReturned(r) /\ err[r] \in LineErrs) => db = dbAtCall[r]

\* A second data line failed after the first line's upsert, which would have
\* changed the store, had been executed in the transaction.
C1_Witness ==
  \E r \in Runs :
    /\ FileToDBReturned(r) /\ err[r] \in LineErrs
    /\ pos[r] = NumHeaders + 2
    /\ Len(txLog[r]) = 1
    /\ ApplyLog(dbAtCall[r], txLog[r]) # dbAtCall[r]

----------------------------------------------------------------------------
(* C2 *)

\* C2 (idempotence): when fileToDB is called on a file whose content the
\* immediately preceding fileToDB call committed, the store after the call is
\* the store before it: same rows, same csv_parts, no row twice.
C2_Idempotence ==
  \A r \in Runs :
    (FileToDBReturned(r) /\ repeat[r]) => db = dbAtCall[r]

\* The second ingestion of a file committed; the file writes one key twice,
\* with different field sequences.
C2_Witness ==
  \E r \in Runs :
    /\ FileToDBReturned(r) /\ repeat[r] /\ err[r] = "none"
    /\ txState[r] = "committed"
    /\ Len(txLog[r]) = 2
    /\ SameKey(txLog[r][1], txLog[r][2])
    /\ txLog[r][1].csv_parts # txLog[r][2].csv_parts

----------------------------------------------------------------------------
(* C3 *)

\* Positions of the data lines of run r's file that write the key of row x.
WritersOf(r, x) ==
  {i \in 1..Len(DataOf(r)) : Key(RowOfLine(DataOf(r)[i])) = Key(x)}

Max(S) == CHOOSE m \in S : \A n \in S : n <= m

\* C3 (upsert replace semantics): the store never holds two rows with one
\* (station, time) key, and after a committed ingestion every row whose key
\* the file writes carries the field sequence of the last line of the file
\* with that key, every other row is as it was before the call, and no key
\* the file writes is missing.
C3_UpsertReplace ==
  /\ \A x \in BagToSet(db) : CopiesIn(x, db) = 1
  /\ \A x, y \in BagToSet(db) : SameKey(x, y) => x = y
  /\ \A r \in Runs :
       (FileToDBReturned(r) /\ err[r] = "none") =>
         /\ \A x \in BagToSet(db) :
              IF WritersOf(r, x) = {}
              THEN x \in BagToSet(dbAtCall[r])
              ELSE x.csv_parts = CsvRead(DataOf(r)[Max(WritersOf(r, x))]).parts
         /\ \A i \in 1..Len(DataOf(r)) : Key(RowOfLine(DataOf(r)[i])) \in Keys(db)
         /\ Keys(dbAtCall[r]) \subseteq Keys(db)

\* A committed file wrote twice, with different field sequences, a key that
\* the store already held with a field sequence other than the final one.
C3_Witness ==
  \E r \in Runs :
    /\ FileToDBReturned(r) /\ err[r] = "none"
    /\ Len(DataOf(r)) = 2
    /\ SameKey(RowOfLine(DataOf(r)[1]), RowOfLine(DataOf(r)[2]))
    /\ DataOf(r)[1] # DataOf(r)[2]
    /\ \E x \in BagToSet(dbAtCall[r]) :
         /\ SameKey(x, RowOfLine(DataOf(r)[2]))
         /\ x.csv_parts # CsvRead(DataOf(r)[2]).parts

----------------------------------------------------------------------------
(* C4 *)

\* Header line i as the feed contract words it: the fixed lines literally,
\* "<integer> ms" and "<integer> results" with at least one digit, and the
\* column-name line with nothing before or after it.
ExpectedLine(i, text) ==
  IF metarHeaders[i].digits
  THEN /\ Len(text) >= 2
       /\ text[Len(text)] = metarHeaders[i].lit
       /\ \A k \in 1..(Len(text) - 1) : text[k] \in Digit
  ELSE text = <<metarHeaders[i].lit>>

HeaderIntact(lines) ==
  /\ Len(lines) >= NumHeaders
  /\ \A i \in 1..NumHeaders : ExpectedLine(i, lines[i])

\* C4 (header strictness): a file in which one of the six header lines is
\* missing or is not the expected line never gets past validation: no
\* transaction is begun for it, fileToDB returns a header error and the
\* store is left as it was.
C4_HeaderStrictness ==
  \A r \in Runs :
    (called[r] /\ fileAtCall[r].exists /\ ~HeaderIntact(fileAtCall[r].lines)) =>
      /\ pc[r] \notin {"begin", "scan", "remove"}
      /\ txState[r] = "none"
      /\ FileToDBReturned(r) => (err[r] \in HeaderErrs /\ db = dbAtCall[r])

----------------------------------------------------------------------------
(* C5 *)

\* The line is a CSV record with a field 2 that time.Parse rejects.
BadTimeLine(text) ==
  LET rec == CsvRead(text) IN
  /\ rec.err = "none"
  /\ Len(rec.parts) >= 3
  /\ TimeParse(rec.parts[3]).err

\* C5 (timestamp strictness): once the scan loop has handed writeLine a data
\* line whose field 2 is not a valid timestamp, writeLine has returned the
\* bad-time error with no insert executed for that line (the transaction
\* holds the inserts of the earlier lines only), and the transaction is
\* rolled back, not committed: the store is as before the call.
C5_TimestampStrictness ==
  \A r \in Runs :
    (called[r] /\ pos[r] > NumHeaders /\ BadTimeLine(fileAtCall[r].lines[pos[r]])) =>
      /\ err[r] = "bad time"
      /\ Len(txLog[r]) = pos[r] - NumHeaders - 1
      /\ txState[r] = "rolledback"
      /\ db = dbAtCall[r]

\* A bad timestamp on the second data line, after the first line's insert
\* had been executed in the transaction.
C5_Witness ==
  \E r \in Runs :
    /\ err[r] = "bad time"
    /\ pos[r] = NumHeaders + 2
    /\ BadTimeLine(fileAtCall[r].lines[pos[r]])
    /\ Len(txLog[r]) = 1
    /\ txState[r] = "rolledback"

----------------------------------------------------------------------------
(* C6 *)

\* C6 (fetch failure stops the run): a run whose downloadFile returned an
\* error has returned without calling fileToDB: no transaction was begun and
\* the store is as it was when the run started.
C6_FetchFailureStops ==
  \A r \in Runs :
    err[r] \in DownloadErrs =>
      /\ pc[r] = "done"
      /\ flags[r].download
      /\ ~called[r]
      /\ txState[r] = "none"
      /\ db = dbAtStart[r]

\* A download-mode run failed at the fetch step against a populated store.
C6_Witness ==
  \E r \in Runs :
    /\ err[r] \in DownloadErrs
    /\ pc[r] = "done"
    /\ db # EmptyBag

----------------------------------------------------------------------------
(* C7 *)

\* The failures of fileToDB past the opening of the file.
FailuresWithFile == IngestErrs \ {"opening file"}

\* C7 (cleanup only after success): a step makes a file disappear only when
\* it is the remove step of a download-mode run whose fileToDB call committed
\* and returned no error; no step other than a download or that removal
\* touches a file; and when a run returns with a header, parse, write, read,
\* begin or commit error, the file is present and is the file fileToDB read.
C7_CleanupOnlyAfterSuccess ==
  [][ /\ \A p \in Paths :
           (fs[p].exists /\ ~fs'[p].exists) =>
             \E r \in Runs :
               /\ pc[r] = "remove" /\ pc'[r] = "done"
               /\ flags[r].filename = p /\ flags[r].download
               /\ called[r] /\ txState[r] = "committed" /\ err[r] = "none"
      /\ fs' # fs => \E r \in Runs : pc[r] \in {"download", "remove"}
      /\ \A r \in Runs :
           (pc'[r] = "done" /\ err'[r] \in FailuresWithFile) =>
             /\ fs'[flags'[r].filename].exists
             /\ fs'[flags'[r].filename] = fileAtCall'[r]
    ]_vars

\* A download-mode run returned a commit error: the downloaded file is still
\* in place.
C7_Witness ==
  \E r \in Runs :
    /\ pc[r] = "done" /\ flags[r].download
    /\ err[r] = "committing"
    /\ fs[flags[r].filename].exists
    /\ fs[flags[r].filename] = fileAtCall[r]

----------------------------------------------------------------------------
(* C8 *)

\* C8 (no silent overwrite): when downloadFile is called while the
\* destination path exists, it returns an error and the filesystem is as it
\* was.
C8_NoSilentOverwrite ==
  [][ \A r \in Runs :
        (pc[r] = "download" /\ pc'[r] # "download" /\ fs[flags[r].filename].exists) =>
          /\ err'[r] \in DownloadErrs
          /\ fs' = fs
    ]_vars

\* downloadFile found the destination taken by a file with content and
\* failed to create it.
C8_Witness ==
  \E r \in Runs :
    /\ pc[r] = "done" /\ err[r] = "error creating file"
    /\ fs[flags[r].filename].exists
    /\ fs[flags[r].filename].lines # <<>>

----------------------------------------------------------------------------
(* C9 *)

\* The lines are well-formed records and no two of them have the same
\* (station, time) key.
ValidDistinct(data) ==
  /\ \A i \in 1..Len(data) :
       /\ CsvRead(data[i]).err = "none"
       /\ Len(CsvRead(data[i]).parts) >= 3
       /\ ~TimeParse(CsvRead(data[i]).parts[3]).err
  /\ \A i, j \in 1..Len(data) :
       i # j => Key(RowOfLine(data[i])) # Key(RowOfLine(data[j]))

\* C9 (successful ingestion stores exactly the file's records): after a file
\* with an intact header block and n valid data lines with pairwise distinct
\* keys has been ingested into an empty store, the store holds exactly n
\* rows, one per data line, with station = field 1, time = field 2 and
\* csv_parts = the line's fields in order.
C9_ExactlyTheRecords ==
  \A r \in Runs :
    ( /\ FileToDBReturned(r) /\ err[r] \in {"none", "removing file"}
      /\ dbAtCall[r] = EmptyBag
      /\ HeaderIntact(fileAtCall[r].lines)
      /\ ValidDistinct(DataOf(r)) ) =>
        /\ db = SetToBag({RowOfLine(DataOf(r)[i]) : i \in 1..Len(DataOf(r))})
        /\ BagCardinality(db) = Len(DataOf(r))

\* Two data lines with different keys were committed to an empty store.
C9_Witness ==
  \E r \in Runs :
    /\ FileToDBReturned(r) /\ err[r] = "none"
    /\ dbAtCall[r] = EmptyBag
    /\ HeaderIntact(fileAtCall[r].lines)
    /\ ValidDistinct(DataOf(r))
    /\ Len(DataOf(r)) = 2
    /\ BagCardinality(db) = 2

----------------------------------------------------------------------------
(* C10 *)

\* C10 (stored rows are never deleted): no step removes a (station, time)
\* key from the store.
C10_KeysNeverLost == [][Keys(db) \subseteq Keys(db')]_vars

\* A run has ended that extended a populated store by a new key, every key
\* held before still being there.
C10_Witness ==
  \E r \in Runs :
    /\ pc[r] = "done"
    /\ dbAtStart[r] # EmptyBag
    /\ Keys(dbAtStart[r]) \subseteq Keys(db)
    /\ Keys(dbAtStart[r]) # Keys(db)

----------------------------------------------------------------------------
(* C11 *)

\* The rows of all data lines of the file run r's fileToDB call read, in
\* file order.
FileRows(r) == [i \in 1..Len(DataOf(r)) |-> RowOfLine(DataOf(r)[i])]

\* C11 (cleanup failure is a run failure after durable commit): a
\* download-mode run that returns after its fileToDB call committed, with the
\* file still in place, returns the removal error; and whenever a run
\* returns the removal error, the rows of every line of its file are
\* committed in the store.
C11_CleanupFailure ==
  \A r \in Runs :
    /\ ( /\ pc[r] = "done" /\ flags[r].download /\ txState[r] = "committed"
         /\ fs[flags[r].filename].exists ) => err[r] = "removing file"
    /\ err[r] = "removing file" =>
         /\ pc[r] = "done" /\ flags[r].download
         /\ txState[r] = "committed"
         /\ db = ApplyLog(dbAtCall[r], FileRows(r))
         /\ \A i \in 1..Len(FileRows(r)) : Key(FileRows(r)[i]) \in Keys(db)

\* The removal failed after a file of two lines had been committed.
C11_Witness ==
  \E r \in Runs :
    /\ pc[r] = "done" /\ err[r] = "removing file"
    /\ fs[flags[r].filename].exists
    /\ Len(DataOf(r)) = 2
    /\ BagCardinality(db) >= 2

----------------------------------------------------------------------------
(* C12 *)

\* The first n lines of the file match the first n patterns, one each, in
\* order.
MatchedInOrder(lines, n) ==
  /\ n <= Len(lines)
  /\ \A i \in 1..n : MatchString(metarHeaders[i], lines[i])

\* C12 (the header validator as an ordered state machine): while checkLines
\* runs it is at pattern pat, has consumed exactly pat - 1 lines and each of
\* them matched its pattern; when it fails it stops at the pattern it was
\* at, having consumed at most that pattern's line, and nothing is read
\* after it; when it succeeds exactly six lines are consumed; and the k-th
\* row written in the transaction is the row of line 6 + k of the file, so
\* the first line given to writeLine is line 7.
C12_HeaderStateMachine ==
  \A r \in Runs :
    LET lines == fileAtCall[r].lines IN
    /\ pc[r] = "headers" =>
         /\ pat[r] \in 1..NumHeaders
         /\ pos[r] = pat[r] - 1
         /\ MatchedInOrder(lines, pos[r])
    /\ err[r] \in HeaderErrs =>
         /\ pat[r] \in 1..NumHeaders
         /\ pos[r] \in {pat[r] - 1, pat[r]}
         /\ MatchedInOrder(lines, pat[r] - 1)
         /\ err[r] = "expected pattern" =>
              (pos[r] = pat[r] /\ ~MatchString(metarHeaders[pat[r]], lines[pat[r]]))
         /\ txState[r] = "none" /\ txLog[r] = <<>>
    /\ pc[r] = "begin" =>
         /\ pat[r] = NumHeaders + 1
         /\ pos[r] = NumHeaders
         /\ MatchedInOrder(lines, NumHeaders)
    /\ txState[r] # "none" =>
         /\ pat[r] = NumHeaders + 1
         /\ pos[r] >= NumHeaders
         /\ Len(txLog[r]) <= pos[r] - NumHeaders
         /\ \A k \in 1..Len(txLog[r]) : txLog[r][k] = RowOfLine(lines[NumHeaders + k])

\* The six header lines were consumed and the first row written is the row
\* of line 7.
C12_Witness ==
  \E r \in Runs :
    /\ txState[r] = "open"
    /\ pos[r] = NumHeaders + 1
    /\ Len(txLog[r]) = 1
    /\ txLog[r][1] = RowOfLine(fileAtCall[r].lines[NumHeaders + 1])

----------------------------------------------------------------------------
(* C13 *)

\* C13 (transaction lifecycle): a transaction is open only inside the scan
\* loop, and while it is open nothing of it is visible in the store
\* (writeLine neither commits nor rolls back); once control has left
\* fileToDB the transaction it began is ended; it is committed only when the
\* end of the input was reached with every data line written and no error,
\* and it is rolled back on every other exit, a panic included.
C13_TxLifecycle ==
  \A r \in Runs :
    /\ txState[r] = "open" => (pc[r] = "scan" /\ err[r] = "none" /\ db = dbAtCall[r])
    /\ FileToDBReturned(r) => txState[r] # "open"
    /\ txState[r] = "committed" =>
         /\ err[r] \in {"none", "removing file"}
         /\ pos[r] = Len(fileAtCall[r].lines)
         /\ Len(txLog[r]) = Len(DataOf(r))
         /\ \A i \in 1..Len(DataOf(r)) : ParseLine(DataOf(r)[i]).kind = "insert"
    /\ txState[r] = "rolledback" =>
         /\ FileToDBReturned(r)
         /\ err[r] \in LineErrs \cup {"reading file", "committing", "panic"}
    /\ (FileToDBReturned(r) /\ err[r] \in LineErrs \cup {"reading file", "committing", "panic"})
         => txState[r] = "rolledback"
    /\ (FileToDBReturned(r) /\ txState[r] = "none") =>
         err[r] \in HeaderErrs \cup {"opening file", "starting transaction"}

\* A read error ended the scan loop after one line had been written: the
\* transaction was rolled back.
C13_Witness ==
  \E r \in Runs :
    /\ FileToDBReturned(r)
    /\ err[r] = "reading file"
    /\ Len(txLog[r]) = 1
    /\ txState[r] = "rolledback"

----------------------------------------------------------------------------
(* C14 *)

\* C14 (validate before touching the store): a transaction is begun only by
\* the step after checkLines returned nil, all six header lines having
\* matched; a call that has had a transaction never begins another; and when
\* fileToDB fails to open the file or to validate the headers, no
\* transaction was begun, no write was issued and the store is untouched.
C14_ValidateFirst ==
  [][ \A r \in Runs :
        /\ (txState[r] = "none" /\ txState'[r] # "none") =>
             /\ pc[r] = "begin" /\ called[r]
             /\ pat[r] = NumHeaders + 1 /\ pos[r] = NumHeaders
             /\ MatchedInOrder(fileAtCall[r].lines, NumHeaders)
             /\ txState'[r] = "open"
        /\ (txState'[r] = "open" /\ txState[r] # "open") => txState[r] = "none"
        /\ (txState[r] # "none" /\ txState'[r] = "none") => ~called'[r]
        /\ err'[r] \in HeaderErrs \cup {"opening file"} =>
             /\ txState'[r] = "none"
             /\ txLog'[r] = <<>>
             /\ db' = dbAtCall'[r]
    ]_vars

\* Validation failed at the sixth header line, the first five having
\* matched, against a populated store: no transaction was begun.
C14_Witness ==
  \E r \in Runs :
    /\ err[r] \in HeaderErrs
    /\ pat[r] = NumHeaders
    /\ txState[r] = "none"
    /\ db # EmptyBag

----------------------------------------------------------------------------
(* C15 *)

\* The line is a syntactically valid CSV record with fewer than three fields.
ShortLine(text) == CsvRead(text).err = "none" /\ Len(CsvRead(text).parts) < 3

\* C15 (malformed rows are rejected with an error): no data line crashes the
\* run; for every line handed to writeLine either its upsert was executed or
\* fileToDB failed with a line error, and a valid CSV line with fewer than
\* three fields makes fileToDB return a line error.
C15_MalformedRejected ==
  \A r \in Runs :
    /\ pc[r] # "crashed" /\ err[r] # "panic"
    /\ (called[r] /\ pos[r] > NumHeaders) =>
         \/ Len(txLog[r]) = pos[r] - NumHeaders
         \/ (err[r] \in LineErrs /\ pc[r] = "done")
    /\ (called[r] /\ pos[r] > NumHeaders /\ ShortLine(fileAtCall[r].lines[pos[r]])) =>
         (err[r] \in LineErrs /\ pc[r] = "done")

----------------------------------------------------------------------------
(* C16 *)

\* C16 (non-empty station): every row in the store has a non-empty station.
C16_NonEmptyStation == \A x \in BagToSet(db) : x.station # <<>>

----------------------------------------------------------------------------
(* C17 *)

\* The step is a step of run r (every step of a run moves its pc or its
\* scanner).
StepOf(r) == pc'[r] # pc[r] \/ pos'[r] # pos[r]

\* C17 (non-download mode leaves the file alone): no step of a run whose
\* download flag is false creates, modifies or deletes a file, and a step
\* that changes the filesystem is the download or the removal step of a run
\* whose download flag is set.
C17_NonDownloadLeavesFile ==
  [][ /\ \A r \in Runs : (StepOf(r) /\ ~flags'[r].download) => fs' = fs
      /\ fs' # fs =>
           \E r \in Runs : flags[r].download /\ pc[r] \in {"download", "remove"}
    ]_vars

\* A run without the download flag committed its file and returned; the
\* file is in place as it was read.
C17_Witness ==
  \E r \in Runs :
    /\ pc[r] = "done" /\ ~flags[r].download
    /\ txState[r] = "committed" /\ err[r] = "none"
    /\ fs[flags[r].filename].exists
    /\ fs[flags[r].filename] = fileAtCall[r]

----------------------------------------------------------------------------
(* C18 *)

\* The errors downloadFile returns before it opens the destination file.
TransportErrs == {"http get", "unexpected status code", "gzip error"}

----------------------------------------------------------------------------
(* C19 *)

\* C19 (a leftover file blocks later download runs): a download-mode run
\* that finds a file at its path fails in downloadFile and returns without
\* calling fileToDB, leaving the file and the store as they were, for as
\* long as the file is there; a run whose copy was interrupted returns at
\* once; and a download-mode run goes on to ingestion only with a file that
\* its own downloadFile wrote in full on a path that was free, so it never
\* ingests a partial file.
C19_LeftoverBlocks ==
  [][ \A r \in Runs :
        /\ (pc[r] = "download" /\ pc'[r] # "download" /\ fs[flags[r].filename].exists) =>
             /\ pc'[r] = "done"
             /\ err'[r] \in DownloadErrs
             /\ ~called'[r]
             /\ fs' = fs
             /\ db' = db
        /\ err'[r] = "error writing to file" => (pc'[r] = "done" /\ ~called'[r])
        /\ (pc[r] = "download" /\ pc'[r] = "connect") =>
             /\ ~fs[flags[r].filename].exists
             /\ fs'[flags[r].filename].lines \in FileSet
        /\ (flags'[r].download /\ called'[r] /\ fileAtCall'[r].exists) =>
             fileAtCall'[r].lines \in FileSet
    ]_vars

\* A download-mode run failed at the fetch step because of a leftover
\* partial file (its content is no complete feed body), with rows in the
\* store.
C19_Witness ==
  \E r \in Runs :
    /\ pc[r] = "done" /\ flags[r].download
    /\ err[r] = "error creating file"
    /\ fs[flags[r].filename].exists
    /\ fs[flags[r].filename].lines \notin FileSet
    /\ db # EmptyBag

----------------------------------------------------------------------------
(* C20 *)

\* The runs whose transaction is committed.
Committed == {r \in Runs : txState[r] = "committed"}

\* The orders in which the runs of C can have committed.
Orders(C) ==
  {s \in [1..Cardinality(C) -> C] : \A i, j \in 1..Cardinality(C) : s[i] = s[j] => i = j}

RECURSIVE ApplyRuns(_, _)
\* The store after the files of the runs in s were ingested whole, one after
\* the other.
ApplyRuns(rows, s) ==
  IF s = <<>> THEN rows ELSE ApplyRuns(ApplyLog(rows, FileRows(Head(s))), Tail(s))

\* C20 (concurrent runs against one store): at every point of every
\* interleaving of two runs on different files, the store is what ingesting
\* the whole files of the committed runs one after the other, in some
\* order, gives (each file is applied entirely or not at all); it holds one
\* row per key; every row is, fields and all, a record of a committed run's
\* file (never a mixture); and no key of a committed file is missing.
C20_ConcurrentRuns ==
  /\ db \in {ApplyRuns(EmptyBag, s) : s \in Orders(Committed)}
  /\ \A x \in BagToSet(db) : CopiesIn(x, db) = 1
  /\ \A x, y \in BagToSet(db) : SameKey(x, y) => x = y
  /\ \A x \in BagToSet(db) :
       \E r \in Committed : \E i \in 1..Len(FileRows(r)) : FileRows(r)[i] = x
  /\ \A r \in Committed :
       \A i \in 1..Len(FileRows(r)) : Key(FileRows(r)[i]) \in Keys(db)

\* Both runs committed; each had called fileToDB before the other committed;
\* their files write a common key with different field sequences.
C20_Witness ==
  /\ Committed = Runs
  /\ \A r \in Runs : dbAtCall[r] = EmptyBag
  /\ \E i \in 1..Len(FileRows(1)) : \E j \in 1..Len(FileRows(2)) :
       /\ SameKey(FileRows(1)[i], FileRows(2)[j])
       /\ FileRows(1)[i] # FileRows(2)[j]

====
